---- MODULE Spec2Model ----
(***************************************************************************)
(* Model of app.py: the Streamlit script of the Reformed theology Q&A.     *)
(* One script run = secrets wiring (module level), then main(); a press of *)
(* Ask makes main() call run_theology_search and render the outcome.       *)
(***************************************************************************)
EXTENDS Integers, Sequences, FiniteSets, TLC

\* Number of presses of Ask explored.
MaxPresses == 2

(***************************************************************************)
(* Python values.  Every value is a record [t, v]; v is the text of the    *)
(* value (the digits of a number, the repr of a nested object).            *)
(***************************************************************************)
Missing == [t |-> "missing", v |-> ""]
PyNone == [t |-> "none", v |-> ""]
PStr(s) == [t |-> "str", v |-> s]
PInt(s) == [t |-> "int", v |-> s]
PObj(s) == [t |-> "obj", v |-> s]

\* Python truth value of a value (bool(x)).
Truthy(x) ==
  CASE x.t = "str" -> x.v # ""
    [] x.t = "int" -> x.v # "0"
    [] x.t = "obj" -> TRUE
    [] OTHER -> FALSE

\* repr(x) of a value, as it appears inside the rendering of a list.
PyRepr(x) ==
  CASE x.t = "str" -> "'" \o x.v \o "'"
    [] x.t = "none" -> "None"
    [] OTHER -> x.v

(***************************************************************************)
(* The two named secrets.  A key is either unset or holds a string, which  *)
(* may be empty.                                                           *)
(***************************************************************************)
Unset == "<unset>"
KeyNames == {"OPENAI_API_KEY", "SERPER_API_KEY"}
KeyVals == {Unset, "", "sk-live"}

(***************************************************************************)
(* What crew.kickoff() can hand back.  kind "obj" is an attribute-bearing  *)
(* object, "list" a sequence, "str" a plain string, "none" Python's None.  *)
(* An attribute that the object does not have is Missing; a collection     *)
(* field is [has, elems].                                                  *)
(***************************************************************************)
NoColl == [has |-> FALSE, elems |-> <<>>]
Coll(es) == [has |-> TRUE, elems |-> es]
TaskOut(raw, result) == [raw |-> raw, result |-> result]

ObjRepr == "<CrewOutput object>"

ObjResult(raw, result, output, to, ts) ==
  [kind |-> "obj", raw |-> raw, result |-> result, output |-> output,
   tasks_output |-> to, tasks |-> ts, items |-> <<>>, text |-> ObjRepr]
ListResult(items) ==
  [kind |-> "list", raw |-> Missing, result |-> Missing, output |-> Missing,
   tasks_output |-> NoColl, tasks |-> NoColl, items |-> items, text |-> ""]
StrResult(s) ==
  [kind |-> "str", raw |-> Missing, result |-> Missing, output |-> Missing,
   tasks_output |-> NoColl, tasks |-> NoColl, items |-> <<>>, text |-> s]
NoneResult ==
  [kind |-> "none", raw |-> Missing, result |-> Missing, output |-> Missing,
   tasks_output |-> NoColl, tasks |-> NoColl, items |-> <<>>, text |-> ""]

JustRaw == "  Justification is by faith alone. "
SupraText == "On supralapsarianism..."
DirectText == "Direct answer"
SeqText == "Sequence answer"

RawVals == {Missing, PStr(""), PStr("   "), PStr(DirectText), PInt("42"), PInt("0"),
            PObj("<TaskOutput object>"), PyNone}
ResultVals == {Missing, PStr(""), PStr(SupraText)}
OutputVals == {Missing, PStr("   ")}
TasksOutputVals == {NoColl, Coll(<<>>), Coll(<<TaskOut(PStr(JustRaw), Missing)>>)}
TasksVals == {NoColl, Coll(<<TaskOut(Missing, PStr(SupraText))>>)}

RawResults ==
  {ObjResult(a, b, c, d, e) : a \in RawVals, b \in ResultVals, c \in OutputVals,
                              d \in TasksOutputVals, e \in TasksVals}
  \cup {ListResult(<<>>), ListResult(<<PStr(SeqText)>>),
        ListResult(<<PStr(SeqText), PInt("42")>>)}
  \cup {StrResult(""), StrResult(DirectText)}

Questions == {"What does supralapsarianism entail in Reformed theology?", ""}

\* Exception classes the external calls raise.
Failures == {"ValueError", "RuntimeError"}

VARIABLES
  secrets,       \* st.secrets: key name -> KeyVals
  environ,       \* os.environ restricted to the two key names
  pc,            \* position of the script run
  presses,       \* number of presses of Ask so far
  user_question, \* the text input's value in this run
  pressed,       \* st.button("Ask") returned True in this run
  crew,          \* create_theology_crew returned a crew in this run
  kickoffs,      \* calls of crew.kickoff() in this run
  ret,           \* what kickoff returned in this run
  exc,           \* exception raised inside the try block of this run ("" = none)
  results,       \* main's variable results
  final_answer,  \* main's variable final_answer
  log,           \* lines emitted through logging, oldest first
  ui,            \* widgets rendered in this run, in order
  panel,         \* content written into the raw-result expander
  answer         \* content of the final-answer block

vars == <<secrets, environ, pc, presses, user_question, pressed, crew, kickoffs,
          ret, exc, results, final_answer, log, ui, panel, answer>>

Init ==
  /\ secrets \in [KeyNames -> KeyVals]
  /\ environ \in [KeyNames -> KeyVals]
  /\ pc = "idle"
  /\ presses = 0
  /\ user_question = ""
  /\ pressed = FALSE
  /\ crew = FALSE
  /\ kickoffs = 0
  /\ ret = NoneResult
  /\ exc = ""
  /\ results = NoneResult
  /\ final_answer = Missing
  /\ log = <<>>
  /\ ui = <<>>
  /\ panel = NoneResult
  /\ answer = Missing

(***************************************************************************)
(* Pure helpers of the script.                                             *)
(***************************************************************************)

\* Lines 10-18: a secret that st.secrets holds overwrites the environment
\* variable; otherwise the variable keeps whatever the process already had.
WireSecret(sec, env, k) == IF sec[k] # Unset THEN sec[k] ELSE env[k]

\* Lines 10-18: the st.error calls of the wiring, OpenAI first.
WiringErrors(sec) ==
  (IF sec["OPENAI_API_KEY"] = Unset THEN <<"error_openai_key">> ELSE <<>>)
  \o (IF sec["SERPER_API_KEY"] = Unset THEN <<"error_serper_key">> ELSE <<>>)

\* Lines 48-52: os.environ.get gives None for an unset key; None and ""
\* are both falsy, and then create_theology_crew raises ValueError.
KeysOk(env) ==
  /\ env["OPENAI_API_KEY"] \notin {Unset, ""}
  /\ env["SERPER_API_KEY"] \notin {Unset, ""}

\* A handler written "except ValueError" instead of "except Exception".
CatchesValueErrorOnly(e) == e = "ValueError"

\* Line 117: "except Exception" catches every failure class.
Catches(e) == e \in Failures

\* Line 135: bool(results).
ResultTruthy(r) ==
  CASE r.kind = "obj" -> TRUE
    [] r.kind = "list" -> Len(r.items) > 0
    [] r.kind = "str" -> r.text # ""
    [] OTHER -> FALSE

\* getattr(r, name, <default>) finds an attribute only on an object.
HasAttr(r, name) == r.kind = "obj" /\ r[name] # Missing

RECURSIVE JoinRepr(_)
JoinRepr(items) ==
  IF items = <<>> THEN ""
  ELSE IF Len(items) = 1 THEN PyRepr(items[1])
  ELSE PyRepr(items[1]) \o ", " \o JoinRepr(Tail(items))

\* str(results) of line 137.
PyStr(r) ==
  CASE r.kind = "list" -> "[" \o JoinRepr(r.items) \o "]"
    [] r.kind = "none" -> "None"
    [] OTHER -> r.text

\* The probe with the two attribute names swapped.
FinalAnswerResultFirst(r) ==
  IF HasAttr(r, "result") THEN r.result
  ELSE IF HasAttr(r, "raw") THEN r.raw
  ELSE PStr(PyStr(r))

\* Line 137: getattr(results, 'raw', getattr(results, 'result', str(results))).
FinalAnswer(r) ==
  IF HasAttr(r, "raw") THEN r.raw
  ELSE IF HasAttr(r, "result") THEN r.result
  ELSE PStr(PyStr(r))

LogLine(n, level, msg) == [run |-> n, level |-> level, msg |-> msg]

(***************************************************************************)
(* Actions.                                                                *)
(***************************************************************************)

\* A script run starts (page load, widget event): lines 10-18.
ScriptStart ==
  /\ pc = "idle"
  /\ environ' = [k \in KeyNames |-> WireSecret(secrets, environ, k)]
  /\ ui' = WiringErrors(secrets)
  /\ pc' = "main"
  /\ pressed' = FALSE
  /\ crew' = FALSE
  /\ kickoffs' = 0
  /\ ret' = NoneResult
  /\ exc' = ""
  /\ results' = NoneResult
  /\ final_answer' = Missing
  /\ panel' = NoneResult
  /\ answer' = Missing
  /\ UNCHANGED <<secrets, presses, user_question, log>>

\* Lines 122-128 with st.button("Ask") false: main returns.
MainNoPress(q) ==
  /\ pc = "main"
  /\ user_question' = q
  /\ pc' = "idle"
  /\ UNCHANGED <<secrets, environ, presses, pressed, crew, kickoffs, ret, exc,
                 results, final_answer, log, ui, panel, answer>>

\* Lines 127-130: Ask was pressed; main enters the spinner and calls
\* run_theology_search(user_question).
PressAsk(q) ==
  /\ pc = "main"
  /\ presses < MaxPresses
  /\ user_question' = q
  /\ pressed' = TRUE
  /\ presses' = presses + 1
  /\ ui' = Append(ui, "spinner")
  /\ pc' = "try"
  /\ UNCHANGED <<secrets, environ, crew, kickoffs, ret, exc, results,
                 final_answer, log, panel, answer>>

\* Line 112.
SearchBegin ==
  /\ pc = "try"
  /\ log' = Append(log, LogLine(presses, "INFO", "Initiating theological query"))
  /\ pc' = "create"
  /\ UNCHANGED <<secrets, environ, presses, user_question, pressed, crew,
                 kickoffs, ret, exc, results, final_answer, ui, panel, answer>>

\* Line 113 and lines 47-108: the key check, then the construction of the
\* LLM, tool, agent, task and crew, any of which may raise.
CreateCrew(ctor) ==
  /\ pc = "create"
  /\ IF ~KeysOk(environ)
       THEN /\ exc' = "ValueError"
            /\ pc' = "except"
            /\ crew' = crew
       ELSE IF ctor = "ok"
         THEN /\ crew' = TRUE
              /\ pc' = "kickoff"
              /\ exc' = exc
         ELSE /\ exc' = ctor
              /\ pc' = "except"
              /\ crew' = crew
  /\ UNCHANGED <<secrets, environ, presses, user_question, pressed, kickoffs,
                 ret, results, final_answer, log, ui, panel, answer>>

\* Line 114: crew.kickoff() returns r.
KickoffReturns(r) ==
  /\ pc = "kickoff"
  /\ kickoffs' = kickoffs + 1
  /\ ret' = r
  /\ pc' = "completed"
  /\ UNCHANGED <<secrets, environ, presses, user_question, pressed, crew, exc,
                 results, final_answer, log, ui, panel, answer>>

\* A wrapper that calls kickoff a second time after a failure.
KickoffRaisesRetry(f) ==
  /\ pc = "kickoff"
  /\ kickoffs' = kickoffs + 1
  /\ exc' = f
  /\ pc' = IF kickoffs = 0 THEN "kickoff" ELSE "except"
  /\ UNCHANGED <<secrets, environ, presses, user_question, pressed, crew, ret,
                 results, final_answer, log, ui, panel, answer>>

\* Line 114: crew.kickoff() raises f.
KickoffRaises(f) ==
  /\ pc = "kickoff"
  /\ kickoffs' = kickoffs + 1
  /\ exc' = f
  /\ pc' = "except"
  /\ UNCHANGED <<secrets, environ, presses, user_question, pressed, crew, ret,
                 results, final_answer, log, ui, panel, answer>>

\* Lines 115-116.
LogCompleted ==
  /\ pc = "completed"
  /\ log' = Append(log, LogLine(presses, "INFO", "Theological query completed"))
  /\ results' = ret
  /\ pc' = "panel"
  /\ UNCHANGED <<secrets, environ, presses, user_question, pressed, crew,
                 kickoffs, ret, exc, final_answer, ui, panel, answer>>

\* A handler that returns None without the logging.error call.
HandleExceptionSilent ==
  /\ pc = "except"
  /\ results' = NoneResult
  /\ pc' = "panel"
  /\ UNCHANGED <<secrets, environ, presses, user_question, pressed, crew,
                 kickoffs, ret, exc, final_answer, log, ui, panel, answer>>

\* Lines 117-119; an exception the handler does not catch leaves
\* run_theology_search and ends the script run.
HandleException ==
  /\ pc = "except"
  /\ IF Catches(exc)
       THEN /\ log' = Append(log, LogLine(presses, "ERROR",
                                          "Error during theological search"))
            /\ results' = NoneResult
            /\ pc' = "panel"
       ELSE /\ pc' = "crashed"
            /\ UNCHANGED <<log, results>>
  /\ UNCHANGED <<secrets, environ, presses, user_question, pressed, crew,
                 kickoffs, ret, exc, final_answer, ui, panel, answer>>

\* A debug panel that is written only for a truthy result.
ShowRawIfTruthy ==
  /\ pc = "panel"
  /\ ui' = IF ResultTruthy(results) THEN Append(ui, "expander") ELSE ui
  /\ panel' = results
  /\ pc' = "status"
  /\ UNCHANGED <<secrets, environ, presses, user_question, pressed, crew,
                 kickoffs, ret, exc, results, final_answer, log, answer>>

\* Lines 132-133.
ShowRaw ==
  /\ pc = "panel"
  /\ ui' = Append(ui, "expander")
  /\ panel' = results
  /\ pc' = "status"
  /\ UNCHANGED <<secrets, environ, presses, user_question, pressed, crew,
                 kickoffs, ret, exc, results, final_answer, log, answer>>

\* Lines 135-144.
ShowStatus ==
  /\ pc = "status"
  /\ IF ResultTruthy(results)
       THEN /\ final_answer' = FinalAnswer(results)
            /\ IF Truthy(FinalAnswer(results))
                 THEN /\ ui' = ui \o <<"success", "answer">>
                      /\ answer' = FinalAnswer(results)
                 ELSE /\ ui' = Append(ui, "warning_no_text")
                      /\ answer' = answer
       ELSE /\ ui' = Append(ui, "warning_no_response")
            /\ UNCHANGED <<final_answer, answer>>
  /\ pc' = "idle"
  /\ UNCHANGED <<secrets, environ, presses, user_question, pressed, crew,
                 kickoffs, ret, exc, results, log, panel>>

Next ==
  \/ ScriptStart
  \/ \E q \in Questions : MainNoPress(q)
  \/ \E q \in Questions : PressAsk(q)
  \/ SearchBegin
  \/ \E c \in {"ok"} \cup Failures : CreateCrew(c)
  \/ \E r \in RawResults : KickoffReturns(r)
  \/ \E f \in Failures : KickoffRaises(f)
  \/ LogCompleted
  \/ HandleException
  \/ ShowRaw
  \/ ShowStatus

Spec == Init /\ [][Next]_vars

(***************************************************************************)
(* Vocabulary of the properties.                                           *)
(***************************************************************************)

StartLine(n) == LogLine(n, "INFO", "Initiating theological query")
DoneLine(n) == LogLine(n, "INFO", "Theological query completed")
ErrorLine(n) == LogLine(n, "ERROR", "Error during theological search")

\* The log lines of the n-th press of Ask, in order.
RunLines(n) == SelectSeq(log, LAMBDA l : l.run = n)

StatusWidgets == {"success", "warning_no_text", "warning_no_response"}

Shown(w) == \E i \in DOMAIN ui : ui[i] = w

\* run_theology_search has returned to main in this run.
Returned == pressed /\ pc \in {"panel", "status", "idle"}

\* The run of a press of Ask has rendered its outcome.
Finished == pressed /\ pc = "idle"

\* The result shapes of the scenarios A-E, and the trimmed text of A.
JustTrimmed == "Justification is by faith alone."
ShapeA == ObjResult(Missing, Missing, Missing,
                    Coll(<<TaskOut(PStr(JustRaw), Missing)>>), NoColl)
ShapeB == ObjResult(Missing, Missing, Missing, NoColl,
                    Coll(<<TaskOut(Missing, PStr(SupraText))>>))
ShapeC == ObjResult(PStr(DirectText), Missing, Missing, NoColl, NoColl)
ShapeD == ListResult(<<PStr(SeqText)>>)
ShapeE == ObjResult(Missing, Missing, Missing, Coll(<<>>), NoColl)

SecretMissing == \E k \in KeyNames : secrets[k] = Unset

WhitespaceOnly == {"   "}
IsBlank(x) == x.t = "str" /\ (x.v = "" \/ x.v \in WhitespaceOnly)

\* The direct candidate attributes an object exposes.
DirectCandidates(r) ==
  {a \in {"raw", "result", "output"} : r.kind = "obj" /\ r[a] # Missing}

\* The object's single candidate attribute is a blank string, and it has no
\* per-task collection to probe.
OnlyBlankCandidate(r) ==
  /\ r.kind = "obj"
  /\ ~r.tasks_output.has
  /\ ~r.tasks.has
  /\ Cardinality(DirectCandidates(r)) = 1
  /\ \A a \in DirectCandidates(r) : IsBlank(r[a])

\* The string-typed candidate values of a result: its direct attributes and
\* the attributes of the first element of its collections.
FirstCandidates(c) ==
  IF c.has /\ c.elems # <<>> THEN {c.elems[1].raw, c.elems[1].result} ELSE {}
StringCandidates(r) ==
  {x \in {r.raw, r.result, r.output} \cup FirstCandidates(r.tasks_output)
         \cup FirstCandidates(r.tasks) : x.t = "str"}

(***************************************************************************)
(* Properties.                                                             *)
(***************************************************************************)

\* C1: run_theology_search never throws past its boundary: whatever crew
\* construction and kickoff did, no exception leaves the function, and what
\* it returns to main is the value kickoff returned, or None when anything
\* inside the try block raised.
C1_NeverThrows ==
  /\ pc # "crashed"
  /\ Returned =>
       IF exc = "" THEN kickoffs = 1 /\ results = ret ELSE results = NoneResult

C1_Witness ==
  /\ Finished
  /\ exc = "RuntimeError"
  /\ kickoffs = 1
  /\ results = NoneResult

\* C2: when a secret is absent from st.secrets, no script run reaches
\* crew.kickoff(), whatever the process environment held beforehand.
C2_NoKickoffWithoutSecrets ==
  SecretMissing => kickoffs = 0

\* C3 (as stated): every press of Ask calls crew.kickoff() exactly once.
C3_ExactlyOncePerPress ==
  Returned => kickoffs = 1

\* C3 (amended): a press of Ask calls crew.kickoff() at most once: exactly
\* once when create_theology_crew returned a crew, not at all when crew
\* construction raised; a failed call is never followed by a second call.
C3_AtMostOnce ==
  /\ kickoffs <= 1
  /\ Returned => (kickoffs = 1 <=> crew)
  /\ Returned /\ ~crew => exc # ""

C3_Witness ==
  /\ pc = "status"
  /\ crew
  /\ exc # ""
  /\ kickoffs = 1

\* C4: for the four known result shapes the displayed answer is the expected
\* string: (A) the trimmed raw of the first tasks_output element, (B) the
\* result of the first tasks element, (C) the direct raw, (D) the first
\* element of the sequence.
C4_FourShapes ==
  Finished =>
    /\ results = ShapeA => Shown("success") /\ answer = PStr(JustTrimmed)
    /\ results = ShapeB => Shown("success") /\ answer = PStr(SupraText)
    /\ results = ShapeC => Shown("success") /\ answer = PStr(DirectText)
    /\ results = ShapeD => Shown("success") /\ answer = PStr(SeqText)

\* C5: a result whose only candidate attribute is an empty or whitespace-only
\* string shows neither the success status nor an answer block, but the
\* "Could not find text output" warning.
C5_BlankIsAbsent ==
  Finished /\ OnlyBlankCandidate(results) =>
    /\ ~Shown("success")
    /\ ~Shown("answer")
    /\ Shown("warning_no_text")

\* C6: the text displayed as the final answer is always the value of a
\* string-typed candidate attribute, or the first element of a sequence (or
\* the result itself when it is a plain string), never the rendering of a
\* number, of a nested object or of the result object.
C6_OnlyStringCandidates ==
  Shown("answer") =>
    /\ answer.t = "str"
    /\ \/ answer \in StringCandidates(results)
       \/ results.kind = "list" /\ results.items # <<>>
            /\ answer.v = results.items[1].v
       \/ results.kind = "str" /\ answer.v = results.text

\* C7: the "No response generated" warning is shown exactly when
\* run_theology_search returned None, and a non-absent result without text
\* ({tasks_output: []}, the empty sequence) gets the "Could not find text
\* output" warning instead.
C7_DistinctWarnings ==
  Finished =>
    /\ Shown("warning_no_response") <=> results = NoneResult
    /\ results \in {ShapeE, ListResult(<<>>)} =>
         Shown("warning_no_text") /\ ~Shown("success")

\* C8: on every press of Ask the value run_theology_search returned is
\* written unmodified to the raw-result panel, before any status line.
C8_RawShownFirst ==
  /\ Finished => Shown("expander")
  /\ Shown("expander") => panel = results
  /\ \A i \in DOMAIN ui :
       ui[i] \in StatusWidgets => \E j \in 1..(i - 1) : ui[j] = "expander"

C8_Witness ==
  /\ Finished
  /\ exc # ""
  /\ panel = NoneResult
  /\ ui[Len(ui)] = "warning_no_response"

\* C9: every run of run_theology_search logs the start line first, before
\* crew construction and kickoff, and then exactly one more line: the
\* completion line when kickoff returned normally, the error line when crew
\* construction or kickoff raised.
C9_LogLines ==
  /\ pressed /\ pc \in {"create", "kickoff", "completed", "except"} =>
       RunLines(presses) = <<StartLine(presses)>>
  /\ Returned =>
       RunLines(presses) =
         IF exc = "" THEN <<StartLine(presses), DoneLine(presses)>>
         ELSE <<StartLine(presses), ErrorLine(presses)>>
  /\ \A n \in 1..(presses - 1) :
       RunLines(n) \in {<<StartLine(n), DoneLine(n)>>,
                        <<StartLine(n), ErrorLine(n)>>}

C9_Witness ==
  /\ Finished
  /\ exc = "ValueError"
  /\ kickoffs = 0
  /\ RunLines(presses) = <<StartLine(presses), ErrorLine(presses)>>

\* C10: every press of Ask ends with exactly one of the three status
\* outcomes; success comes only with a non-empty answer; and when the result
\* has both a direct raw and a direct result attribute, the answer shown is
\* raw.
C10_OneOutcome ==
  /\ Finished =>
       Cardinality({i \in DOMAIN ui : ui[i] \in StatusWidgets}) = 1
  /\ Shown("success") =>
       /\ Shown("answer")
       /\ answer \notin {Missing, PyNone, PStr("")}
       /\ Truthy(answer)
  /\ Shown("answer") => Shown("success")
  /\ Shown("answer") /\ HasAttr(results, "raw") /\ HasAttr(results, "result") =>
       answer = results.raw

C10_Witness ==
  /\ Finished
  /\ Shown("success")
  /\ results.raw = PStr(DirectText)
  /\ results.result = PStr(SupraText)
  /\ answer = PStr(DirectText)

====
